---- MODULE Spec2Model ----
(***************************************************************************)
(* Course feedback dashboard (src/app.py): a Streamlit script that is run  *)
(* top to bottom on every timer tick and on every form submission, reads   *)
(* the whole Google Sheet, renders a word cloud, handles the feedback form *)
(* (one append_row call) and renders the 50 most recent feedbacks.         *)
(*                                                                         *)
(* Text is modelled as a tuple of one-character strings, so that strip(),  *)
(* the sheet's parsing of typed values, pandas' numeric parsing and the    *)
(* lexicographic sort of the timestamp column are computed, not assumed.   *)
(***************************************************************************)
EXTENDS Integers, Sequences, FiniteSets

VARIABLES
    sheet,        \* the worksheet: a sequence of rows, each a tuple of cell texts
    now,          \* the server clock read by datetime.utcnow(), in half seconds
    limit,        \* the number of feed entries shown (head(50))
    pc,           \* per session: position of the current script run
    submitted,    \* per session: form_submit_button result of the current run
    rating,       \* per session: slider value of the current run
    comment,      \* per session: text_area value of the current run
    df_all,       \* per session: the DataFrame read at line 108
    cloud,        \* per session: what the word cloud section shows
    msg,          \* per session: the message of the run (form result, read error)
    feed,         \* per session: df_show.head(limit), as row labels of df_all
    readCalls,    \* per session: get_all_values calls made by the current run
    appendCalls,  \* per session: append_row calls made by the current run
    snapRows,     \* per session: number of sheet rows the current run has read
    log,          \* history: the successful append_row calls, in server order
    sheet0        \* history: the worksheet as it was when the model starts

vars == <<sheet, now, limit, pc, submitted, rating, comment, df_all, cloud, msg,
          feed, readCalls, appendCalls, snapRows, log, sheet0>>

(***************************************************************************)
(* Bounds of the model.                                                    *)
(***************************************************************************)
MaxAppends == 2
MaxLimit == 2
MaxViewRows == 3
MaxShapeRows == 2

Sessions == {1, 2}

(***************************************************************************)
(* Text.                                                                   *)
(***************************************************************************)
Digits == <<"0", "1", "2", "3", "4", "5", "6", "7", "8", "9">>
Upper == <<"A", "B", "C", "D", "E", "F", "G", "H", "I", "J", "K", "L", "M",
           "N", "O", "P", "Q", "R", "S", "T", "U", "V", "W", "X", "Y", "Z">>
Lower == <<"a", "b", "c", "d", "e", "f", "g", "h", "i", "j", "k", "l", "m",
           "n", "o", "p", "q", "r", "s", "t", "u", "v", "w", "x", "y", "z">>

IndexIn(seq, c) == CHOOSE i \in 1..Len(seq) : seq[i] = c
IsIn(seq, c) == \E i \in 1..Len(seq) : seq[i] = c

IsDigit(c) == IsIn(Digits, c)
IsLetter(c) == IsIn(Upper, c) \/ IsIn(Lower, c)
DigitVal(c) == IndexIn(Digits, c) - 1

\* Code point of a character: Python compares str values code point by code point.
Ord(c) ==
    IF IsDigit(c) THEN 47 + IndexIn(Digits, c)
    ELSE IF IsIn(Upper, c) THEN 64 + IndexIn(Upper, c)
    ELSE IF IsIn(Lower, c) THEN 96 + IndexIn(Lower, c)
    ELSE CASE c = " " -> 32
           [] c = "\"" -> 34
           [] c = "#" -> 35
           [] c = "'" -> 39
           [] c = "." -> 46
           [] c = "/" -> 47
           [] c = "=" -> 61
           [] c = "?" -> 63

\* a < b for two str values.
RECURSIVE StrLess(_, _)
StrLess(a, b) ==
    IF a = <<>> THEN b # <<>>
    ELSE IF b = <<>> THEN FALSE
    ELSE IF Head(a) = Head(b) THEN StrLess(Tail(a), Tail(b))
    ELSE Ord(Head(a)) < Ord(Head(b))

RECURSIVE LStrip(_)
LStrip(s) == IF s # <<>> /\ Head(s) = " " THEN LStrip(Tail(s)) ELSE s

RECURSIVE RStrip(_)
RStrip(s) ==
    IF s # <<>> /\ s[Len(s)] = " " THEN RStrip(SubSeq(s, 1, Len(s) - 1)) ELSE s

StripNone(s) == s

\* str.strip()
Strip(s) == RStrip(LStrip(s))

AllDigits(s) == s # <<>> /\ \A i \in 1..Len(s) : IsDigit(s[i])

RECURSIVE ParseNat(_)
ParseNat(s) ==
    IF s = <<>> THEN 0 ELSE 10 * ParseNat(SubSeq(s, 1, Len(s) - 1)) + DigitVal(s[Len(s)])

RECURSIVE NatToStr(_)
NatToStr(n) ==
    IF n < 10 THEN <<Digits[n + 1]>> ELSE NatToStr(n \div 10) \o <<Digits[(n % 10) + 1]>>

StrTimestamp == <<"t", "i", "m", "e", "s", "t", "a", "m", "p">>
StrRating == <<"r", "a", "t", "i", "n", "g">>
StrComment == <<"c", "o", "m", "m", "e", "n", "t">>
StrInf == <<"i", "n", "f">>
StrNameError == <<"#", "N", "A", "M", "E", "?">>

(***************************************************************************)
(* The worksheet behind gspread.                                           *)
(***************************************************************************)
\* datetime.utcnow().isoformat(): fixed-width zero-padded fields, with the
\* fraction left out when it is zero.  The clock counts half seconds; the
\* date fields, equal in every value, are left out and "T" stands for them.
IsoFormat(t) ==
    <<"T", Digits[((t \div 2) \div 10) + 1], Digits[((t \div 2) % 10) + 1]>>
        \o (IF t % 2 = 0 THEN <<>> ELSE <<".", "5">>)

\* A text literal of a formula: "..." with no quote inside.
IsQuoted(v) ==
    /\ Len(v) >= 2
    /\ v[1] = "\"" /\ v[Len(v)] = "\""
    /\ \A i \in 2..(Len(v) - 1) : v[i] # "\""

\* value_input_option="USER_ENTERED": the text is parsed as if typed into the
\* sheet: a leading apostrophe is dropped, a leading "=" makes a formula (a
\* number, a quoted text, or else an unknown name), a numeric text becomes a
\* number; the cell then reads back as its formatted value.
UserEntered(v) ==
    IF v = <<>> THEN v
    ELSE IF Head(v) = "'" THEN Tail(v)
    ELSE IF Head(v) = "=" /\ Len(v) > 1
         THEN IF AllDigits(Tail(v)) THEN NatToStr(ParseNat(Tail(v)))
              ELSE IF IsQuoted(Tail(v)) THEN SubSeq(v, 3, Len(v) - 1)
              ELSE StrNameError
    ELSE IF AllDigits(v) THEN NatToStr(ParseNat(v))
    ELSE v

\* The row [ts, int(rating), comment] as the sheet stores it.
StoredRow(ts, r, c) == <<UserEntered(ts), NatToStr(r), UserEntered(c)>>

OverwriteLastRow(sh, row) ==
    IF Len(sh) >= 2 THEN [sh EXCEPT ![Len(sh)] = row] ELSE Append(sh, row)

\* ws.append_row: one remote call that adds the row after the last row of the table.
AppendRow(sh, row) == Append(sh, row)

MaxOf(S) == CHOOSE x \in S : \A y \in S : y <= x

\* ws.get_all_values(): every row, padded with "" to the widest row.
GetAllValues(sh) ==
    LET w == MaxOf({0} \cup {Len(sh[i]) : i \in 1..Len(sh)})
    IN  [i \in 1..Len(sh) |-> sh[i] \o [j \in 1..(w - Len(sh[i])) |-> <<>>]]

\* pd.to_numeric(errors="coerce") of one cell: an integer, a decimal (the
\* astype(int) that follows truncates it), infinity, or NaN.
ToNumeric(cell) ==
    IF AllDigits(cell) THEN [kind |-> "num", val |-> ParseNat(cell)]
    ELSE IF \E k \in 2..(Len(cell) - 1) :
                /\ cell[k] = "."
                /\ AllDigits(SubSeq(cell, 1, k - 1))
                /\ AllDigits(SubSeq(cell, k + 1, Len(cell)))
         THEN LET k == CHOOSE k \in 2..(Len(cell) - 1) : cell[k] = "."
              IN  [kind |-> "num", val |-> ParseNat(SubSeq(cell, 1, k - 1))]
    ELSE IF cell = StrInf THEN [kind |-> "inf", val |-> 0]
    ELSE [kind |-> "nan", val |-> 0]

HasColumn(header, name) == \E i \in 1..Len(header) : header[i] = name

\* df[name] for a column label that occurs once in the header.
Column(values, name) ==
    LET i == CHOOSE i \in 1..Len(values[1]) : values[1][i] = name
    IN  [r \in 1..(Len(values) - 1) |-> values[r + 1][i]]

\* .fillna(0).astype(int) raises when a value is not finite.
RatingCastRaises(nums) == \E r \in 1..Len(nums) : nums[r].kind = "inf"

\* read_feedbacks_from_sheet, after the worksheet was fetched.
ReadAll(sh) ==
    LET all_values == GetAllValues(sh)
    IN  IF Len(all_values) <= 1 THEN [ok |-> TRUE, rows |-> <<>>]
        ELSE LET n == Len(all_values) - 1
                 col(name) == IF HasColumn(all_values[1], name)
                              THEN Column(all_values, name)
                              ELSE [r \in 1..n |-> <<>>]
                 nums == [r \in 1..n |-> ToNumeric(col(StrRating)[r])]
             IN  IF RatingCastRaises(nums) THEN [ok |-> FALSE, rows |-> <<>>]
                 ELSE [ok |-> TRUE,
                       rows |-> [r \in 1..n |->
                                   [timestamp |-> col(StrTimestamp)[r],
                                    rating |-> nums[r].val,
                                    comment |-> col(StrComment)[r]]]]

(***************************************************************************)
(* Word cloud and recent feed, computed from the DataFrame of the run.     *)
(***************************************************************************)
\* Line 113: no rows, or no comment left once blank ones are dropped.
NoComments(df) == Len(df) = 0 \/ \A r \in 1..Len(df) : Strip(df[r].comment) = <<>>

\* " ".join(df_all["comment"])
RECURSIVE AllText(_)
AllText(df) ==
    IF Len(df) = 0 THEN <<>>
    ELSE IF Len(df) = 1 THEN df[1].comment
    ELSE AllText(SubSeq(df, 1, Len(df) - 1)) \o <<" ">> \o df[Len(df)].comment

\* WordCloud.generate raises ValueError when the text holds no word; a word
\* needs a letter (numbers are not counted as words).
HasWord(text) == \E i \in 1..Len(text) : IsLetter(text[i])

RowOrders(n) ==
    {p \in [1..n -> 1..n] : \A i, j \in 1..n : p[i] = p[j] => i = j}

IsSortedAscending(df, p) ==
    \A i, j \in 1..Len(df) :
        i < j => ~StrLess(df[p[j]].timestamp, df[p[i]].timestamp)

\* sort_values(by="timestamp", ascending=False): the labels p of df's rows in
\* an order in which the timestamp texts never increase.
IsSortedDescending(df, p) ==
    \A i, j \in 1..Len(df) :
        i < j => ~StrLess(df[p[i]].timestamp, df[p[j]].timestamp)

\* The orders sort_values may return (rows with equal keys in any order).
SortValues(df) == {p \in RowOrders(Len(df)) : IsSortedDescending(df, p)}

\* DataFrame.head(n)
HeadRows(p, n) == SubSeq(p, 1, IF n < Len(p) THEN n ELSE Len(p))

(***************************************************************************)
(* One run of the script, per browser session.  A run talks to the sheet   *)
(* twice, at line 108 and at line 136; what lies between (word cloud) and  *)
(* after (feed) reads only the run's own DataFrame, so a run is two steps. *)
(***************************************************************************)
FeedLimit == 50
SliderMin == 1
SliderMax == 5
SliderDefault == 5

Header == <<StrTimestamp, StrRating, StrComment>>

\* What users type into the form: (slider value, text area value).
FormInputs ==
    { <<5, <<" ", "x", " ">>>>,
      <<3, <<"0", "7">>>>,
      <<4, <<"=", "\"", "\"">>>>,
      <<2, <<" ">>>>,
      <<1, <<>>>> }

RerunAfterForm(p) == IF p = "read" THEN "form" ELSE "read"

\* The order of the script's sections: read and word cloud (107-121), then
\* form and recent feedbacks (127-158), then the run ends (no st.rerun()).
ScriptNext(p) == IF p = "read" THEN "form" ELSE "done"

AlwaysSuccess(ok) == "success"

\* Lines 135-141: st.success after the call returned, st.error when it raised.
AppendResultMsg(ok) == IF ok THEN "success" ELSE "error"

NoCloud == [kind |-> "none", text |-> <<>>]

\* Lines 113-121 for DataFrame df.
WordCloudOf(df) ==
    IF NoComments(df) THEN [kind |-> "info", text |-> <<>>]
    ELSE IF HasWord(AllText(df)) THEN [kind |-> "shown", text |-> AllText(df)]
    ELSE [kind |-> "raised", text |-> AllText(df)]

\* A script run starts: the page of the previous run is replaced.
StartRun(s, sub, r, c) ==
    /\ pc' = [pc EXCEPT ![s] = "read"]
    /\ submitted' = [submitted EXCEPT ![s] = sub]
    /\ rating' = [rating EXCEPT ![s] = r]
    /\ comment' = [comment EXCEPT ![s] = c]
    /\ df_all' = [df_all EXCEPT ![s] = <<>>]
    /\ cloud' = [cloud EXCEPT ![s] = NoCloud]
    /\ msg' = [msg EXCEPT ![s] = "none"]
    /\ feed' = [feed EXCEPT ![s] = <<>>]
    /\ readCalls' = [readCalls EXCEPT ![s] = 0]
    /\ appendCalls' = [appendCalls EXCEPT ![s] = 0]
    /\ snapRows' = [snapRows EXCEPT ![s] = 0]
    /\ UNCHANGED <<sheet, now, limit, log, sheet0>>

\* st_autorefresh (or the page load): a run with the form not submitted.
TimerRerun(s) ==
    /\ pc[s] \in {"new", "done", "stopped"}
    /\ StartRun(s, FALSE, SliderDefault, <<>>)

\* The user presses Submit on a page that shows the form.
SubmitRerun(s) ==
    /\ pc[s] = "done"
    /\ \E in \in FormInputs :
          /\ in[1] \in SliderMin..SliderMax
          /\ StartRun(s, TRUE, in[1], in[2])

\* Line 108 returns a DataFrame; the word cloud section follows, and an
\* exception of WordCloud.generate ends the run before the form.
ReadOk(s) ==
    /\ pc[s] = "read"
    /\ ReadAll(sheet).ok
    /\ df_all' = [df_all EXCEPT ![s] = ReadAll(sheet).rows]
    /\ snapRows' = [snapRows EXCEPT ![s] = Len(sheet)]
    /\ readCalls' = [readCalls EXCEPT ![s] = @ + 1]
    /\ cloud' = [cloud EXCEPT ![s] = WordCloudOf(ReadAll(sheet).rows)]
    /\ pc' = [pc EXCEPT ![s] = IF WordCloudOf(ReadAll(sheet).rows).kind = "raised"
                               THEN "stopped" ELSE ScriptNext("read")]
    /\ UNCHANGED <<sheet, now, limit, submitted, rating, comment, msg, feed,
                   appendCalls, log, sheet0>>

\* Line 108 raises, because the sheet cannot be reached or because the rating
\* cast raises: lines 109-111 show the exception and stop the run.
ReadFail(s) ==
    /\ pc[s] = "read"
    /\ \E raised \in BOOLEAN :
          /\ raised => ~ReadAll(sheet).ok
          /\ msg' = [msg EXCEPT ![s] = IF raised THEN "raised" ELSE "unavailable"]
    /\ readCalls' = [readCalls EXCEPT ![s] = @ + 1]
    /\ pc' = [pc EXCEPT ![s] = "stopped"]
    /\ UNCHANGED <<sheet, now, limit, submitted, rating, comment, df_all, cloud,
                   feed, appendCalls, snapRows, log, sheet0>>

\* Lines 147-158, and the end of the run: clear_on_submit resets the widgets.
RenderFeed(s) ==
    /\ \E p \in SortValues(df_all[s]) :
          feed' = [feed EXCEPT ![s] = HeadRows(p, limit)]
    /\ pc' = [pc EXCEPT ![s] = ScriptNext("form")]
    /\ IF ScriptNext("form") = "done"
       THEN /\ submitted' = [submitted EXCEPT ![s] = FALSE]
            /\ rating' = [rating EXCEPT ![s] = SliderDefault]
            /\ comment' = [comment EXCEPT ![s] = <<>>]
       ELSE UNCHANGED <<submitted, rating, comment>>

\* Lines 131-133: not submitted, or a comment that is blank once stripped.
FormNoAppend(s) ==
    /\ pc[s] = "form"
    /\ ~submitted[s] \/ Strip(comment[s]) = <<>>
    /\ msg' = [msg EXCEPT ![s] = IF submitted[s] THEN "warning" ELSE "none"]
    /\ RenderFeed(s)
    /\ UNCHANGED <<sheet, now, limit, df_all, cloud, readCalls, appendCalls,
                   snapRows, log, sheet0>>

\* Lines 135-137: append_feedback_to_sheet returns.  The clock is read once
\* for the row and has moved on by the next call.
FormAppendOk(s) ==
    /\ pc[s] = "form"
    /\ submitted[s] /\ Strip(comment[s]) # <<>>
    /\ Len(log) < MaxAppends
    /\ sheet' = AppendRow(sheet, StoredRow(IsoFormat(now), rating[s], Strip(comment[s])))
    /\ log' = Append(log, [by |-> s, at |-> Len(sheet) + 1, ts |-> IsoFormat(now),
                           rating |-> rating[s], comment |-> Strip(comment[s])])
    /\ appendCalls' = [appendCalls EXCEPT ![s] = @ + 1]
    /\ msg' = [msg EXCEPT ![s] = AppendResultMsg(TRUE)]
    /\ now' = now + 1
    /\ RenderFeed(s)
    /\ UNCHANGED <<limit, df_all, cloud, readCalls, snapRows, sheet0>>

\* Lines 135-141: get_worksheet or append_row raises; nothing was added.
FormAppendFail(s) ==
    /\ pc[s] = "form"
    /\ submitted[s] /\ Strip(comment[s]) # <<>>
    /\ appendCalls' = [appendCalls EXCEPT ![s] = @ + 1]
    /\ msg' = [msg EXCEPT ![s] = AppendResultMsg(FALSE)]
    /\ RenderFeed(s)
    /\ UNCHANGED <<sheet, now, limit, df_all, cloud, readCalls, snapRows, log,
                   sheet0>>

\* The worksheets the application is started on.
InitSheets ==
    { <<>>, <<Header>> }

InitSessions ==
    /\ pc = [s \in Sessions |-> "new"]
    /\ submitted = [s \in Sessions |-> FALSE]
    /\ rating = [s \in Sessions |-> SliderDefault]
    /\ comment = [s \in Sessions |-> <<>>]
    /\ df_all = [s \in Sessions |-> <<>>]
    /\ cloud = [s \in Sessions |-> NoCloud]
    /\ msg = [s \in Sessions |-> "none"]
    /\ feed = [s \in Sessions |-> <<>>]
    /\ readCalls = [s \in Sessions |-> 0]
    /\ appendCalls = [s \in Sessions |-> 0]
    /\ snapRows = [s \in Sessions |-> 0]
    /\ log = <<>>

Init ==
    /\ sheet \in InitSheets
    /\ sheet0 = sheet
    /\ now = 1
    /\ limit = FeedLimit
    /\ InitSessions

Next ==
    \/ \E s \in Sessions : TimerRerun(s)
    \/ \E s \in Sessions : SubmitRerun(s)
    \/ \E s \in Sessions : ReadOk(s)
    \/ \E s \in Sessions : ReadFail(s)
    \/ \E s \in Sessions : FormNoAppend(s)
    \/ \E s \in Sessions : FormAppendOk(s)
    \/ \E s \in Sessions : FormAppendFail(s)

Spec == Init /\ [][Next]_vars

(***************************************************************************)
(* Reading and rendering alone, over worksheets edited outside the         *)
(* application: any timestamp text, any rating text, any header layout.    *)
(***************************************************************************)
ViewTimestamps ==
    { <<>>, IsoFormat(0), IsoFormat(1), IsoFormat(2), <<"n", "/", "a">> }

ViewRatings ==
    { <<"5">>, <<>>, <<"n", "/", "a">>, <<"4", ".", "7">>, StrInf }

ViewHeaders ==
    { Header,
      <<StrRating, StrComment, StrTimestamp>>,
      <<StrTimestamp, StrComment>>,
      <<StrRating, StrComment>>,
      <<StrTimestamp, StrRating>> }

\* A data row laid out under header h.
RowUnder(h, ts, r, c) ==
    [i \in 1..Len(h) |->
        IF h[i] = StrTimestamp THEN ts ELSE IF h[i] = StrRating THEN r ELSE c]

TimestampSheets ==
    UNION { { <<Header>> \o [i \in 1..n |-> RowUnder(Header, t[i], <<"5">>, <<"x">>)] :
                t \in [1..n -> ViewTimestamps] } : n \in 1..MaxViewRows }

ShapeSheets ==
    UNION { { <<h>> \o [i \in 1..n |-> RowUnder(h, IsoFormat(0), r[i], <<"x">>)] :
                r \in [1..n -> ViewRatings] } : h \in ViewHeaders, n \in 1..MaxShapeRows }

InitView ==
    /\ sheet \in TimestampSheets \cup ShapeSheets
    /\ sheet0 = sheet
    /\ now = 1
    /\ limit \in 1..MaxLimit
    /\ InitSessions

NextView ==
    \/ \E s \in Sessions : TimerRerun(s)
    \/ \E s \in Sessions : ReadOk(s)
    \/ \E s \in Sessions : ReadFail(s)
    \/ \E s \in Sessions : FormNoAppend(s)

SpecView == InitView /\ [][NextView]_vars

(***************************************************************************)
(* Vocabulary of the properties.                                           *)
(***************************************************************************)
IsBlank(s) == \A i \in 1..Len(s) : s[i] = " "

\* A text in the format append_feedback_to_sheet writes.
IsTimestamp(s) ==
    /\ Len(s) \in {3, 5}
    /\ s[1] = "T" /\ IsDigit(s[2]) /\ IsDigit(s[3])
    /\ Len(s) = 5 => (s[4] = "." /\ IsDigit(s[5]))

\* The instant a timestamp text names, in tenths of a second.
Instant(s) ==
    100 * DigitVal(s[2]) + 10 * DigitVal(s[3]) + (IF Len(s) = 5 THEN DigitVal(s[5]) ELSE 0)

Shown(s) == {feed[s][i] : i \in 1..Len(feed[s])}
LeftOut(s) == (1..Len(df_all[s])) \ Shown(s)
Stamp(s, label) == df_all[s][label].timestamp

\* The last append_row call of session s that succeeded.
LastAppendBy(s) ==
    LET ks == {k \in 1..Len(log) : log[k].by = s}
    IN  log[CHOOSE k \in ks : \A j \in ks : j <= k]

(***************************************************************************)
(* C1: a successful append(rating, comment) followed by readAll returns    *)
(* what readAll returned before plus exactly one more record, whose rating *)
(* and comment are the values passed to append.                            *)
(***************************************************************************)
C1_AppendThenReadAll ==
    [][Len(log') = Len(log) + 1 /\ ReadAll(sheet).ok =>
         LET before == ReadAll(sheet).rows
             after == ReadAll(sheet')
             e == log'[Len(log')]
         IN  /\ after.ok
             /\ Len(after.rows) = Len(before) + 1
             /\ SubSeq(after.rows, 1, Len(before)) = before
             /\ after.rows[Len(after.rows)].rating = e.rating
             /\ after.rows[Len(after.rows)].comment = e.comment]_vars

(***************************************************************************)
(* C2: a submission whose comment is blank after trimming is answered with *)
(* the validation warning, makes no append call and leaves the worksheet,  *)
(* and so the result of readAll, as it was.                                *)
(***************************************************************************)
C2_BlankCommentRejected ==
    [][\A s \in Sessions :
         (pc[s] = "form" /\ pc'[s] # "form" /\ submitted[s] /\ IsBlank(comment[s])) =>
            /\ msg'[s] = "warning"
            /\ appendCalls'[s] = 0
            /\ sheet' = sheet
            /\ log' = log
            /\ ReadAll(sheet') = ReadAll(sheet)]_vars

C2_Witness ==
    \E s \in Sessions : pc[s] = "done" /\ msg[s] = "warning" /\ Len(df_all[s]) > 0

(***************************************************************************)
(* C3: whatever the interleaving of the sessions, after k successful       *)
(* appends the worksheet holds its prior rows in their prior order         *)
(* followed by exactly k new rows, the k-th being the row of the k-th      *)
(* append: no row is lost, overwritten or moved.                           *)
(***************************************************************************)
C3_NoLostUpdate ==
    /\ Len(sheet) = Len(sheet0) + Len(log)
    /\ SubSeq(sheet, 1, Len(sheet0)) = sheet0
    /\ \A k \in 1..Len(log) :
          /\ log[k].at = Len(sheet0) + k
          /\ sheet[log[k].at] = StoredRow(log[k].ts, log[k].rating, log[k].comment)

\* Two sessions appended, the second after reading the sheet as it was
\* before the first one's row arrived.
C3_Witness ==
    /\ Len(log) = 2
    /\ log[1].by # log[2].by
    /\ pc[log[2].by] = "done" /\ msg[log[2].by] = "success"
    /\ snapRows[log[2].by] < log[1].at

(***************************************************************************)
(* C4: a run whose read comes after a successful append, and succeeds,     *)
(* works on a DataFrame that holds the appended record.                    *)
(***************************************************************************)
C4_NextRefreshShowsRecord ==
    \A s \in Sessions :
        pc[s] \in {"form", "done"} =>
            \A k \in 1..Len(log) :
                log[k].at <= snapRows[s] =>
                    \E j \in 1..Len(df_all[s]) :
                        /\ df_all[s][j].timestamp = log[k].ts
                        /\ df_all[s][j].rating = log[k].rating

(***************************************************************************)
(* C5: when the append call of a submission fails, the run reports the     *)
(* failure (not success), has made exactly one append call, has added no   *)
(* row, and goes on to its end, after which the session runs again.        *)
(***************************************************************************)
C5_FailedAppendReported ==
    [][\A s \in Sessions :
         (appendCalls'[s] = appendCalls[s] + 1 /\ log' = log) =>
            /\ msg'[s] = "error"
            /\ appendCalls'[s] = 1
            /\ sheet' = sheet
            /\ pc'[s] = "done"]_vars

C5_Witness ==
    \E s \in Sessions : pc[s] = "done" /\ msg[s] = "error" /\ appendCalls[s] = 1

(***************************************************************************)
(* C6: readAll never raises because of the cells or the header; when the   *)
(* header lacks the rating column every record has rating 0; a rating cell *)
(* with no digit in it reads as 0; a missing timestamp or comment column   *)
(* reads as the empty text; there is one record per data row.              *)
(***************************************************************************)
C6_ReadAllTolerant ==
    \A s \in Sessions :
        /\ msg[s] # "raised"
        /\ (pc[s] \in {"form", "done"} /\ Len(sheet) > 1) =>
              /\ Len(df_all[s]) = Len(sheet) - 1
              /\ \A r \in 1..Len(df_all[s]) :
                    /\ ~HasColumn(sheet[1], StrRating) => df_all[s][r].rating = 0
                    /\ ~HasColumn(sheet[1], StrTimestamp) => df_all[s][r].timestamp = <<>>
                    /\ ~HasColumn(sheet[1], StrComment) => df_all[s][r].comment = <<>>
                    /\ (HasColumn(sheet[1], StrRating)
                          /\ \A i \in 1..Len(Column(GetAllValues(sheet), StrRating)[r]) :
                                ~IsDigit(Column(GetAllValues(sheet), StrRating)[r][i]))
                       => df_all[s][r].rating = 0

(***************************************************************************)
(* C7: the feed of n records with limit L holds min(n, L) distinct         *)
(* records, in descending order of timestamp (for timestamps in the        *)
(* written format: most recent first) whatever the order of the rows in    *)
(* the sheet, and no record left out has a later timestamp than a record   *)
(* shown.                                                                  *)
(***************************************************************************)
C7_RecentFeed ==
    \A s \in Sessions :
        pc[s] = "done" =>
            /\ Len(feed[s]) = (IF Len(df_all[s]) < limit THEN Len(df_all[s]) ELSE limit)
            /\ Shown(s) \subseteq 1..Len(df_all[s])
            /\ Cardinality(Shown(s)) = Len(feed[s])
            /\ \A i, j \in 1..Len(feed[s]) :
                  i < j =>
                     /\ ~StrLess(Stamp(s, feed[s][i]), Stamp(s, feed[s][j]))
                     /\ (IsTimestamp(Stamp(s, feed[s][i])) /\ IsTimestamp(Stamp(s, feed[s][j])))
                        => Instant(Stamp(s, feed[s][i])) >= Instant(Stamp(s, feed[s][j]))
            /\ \A o \in LeftOut(s), i \in Shown(s) :
                  /\ ~StrLess(Stamp(s, i), Stamp(s, o))
                  /\ (IsTimestamp(Stamp(s, i)) /\ IsTimestamp(Stamp(s, o)))
                     => Instant(Stamp(s, i)) >= Instant(Stamp(s, o))

\* Three rows stored out of chronological order, two of them shown.
C7_Witness ==
    \E s \in Sessions :
        /\ pc[s] = "done" /\ limit = 2
        /\ Len(df_all[s]) = 3
        /\ Stamp(s, 1) = IsoFormat(0) /\ Stamp(s, 2) = IsoFormat(2) /\ Stamp(s, 3) = IsoFormat(1)
        /\ feed[s] = <<2, 3>>

(***************************************************************************)
(* C8: in the feed a record whose timestamp is missing or not a timestamp  *)
(* comes after every record with a valid timestamp, and is cut off by the  *)
(* limit before any of them.                                               *)
(***************************************************************************)
C8_BadTimestampsLast ==
    \A s \in Sessions :
        pc[s] = "done" =>
            /\ \A i, j \in 1..Len(feed[s]) :
                  (i < j /\ IsTimestamp(Stamp(s, feed[s][j]))) => IsTimestamp(Stamp(s, feed[s][i]))
            /\ \A o \in LeftOut(s), i \in Shown(s) :
                  IsTimestamp(Stamp(s, o)) => IsTimestamp(Stamp(s, i))

(***************************************************************************)
(* C9: every row a submission has written holds a rating that is an        *)
(* integer in 1..5, a comment that is not empty and has no leading or      *)
(* trailing blank, and the timestamp taken at the append.                  *)
(***************************************************************************)
C9_WrittenRowsValid ==
    \A k \in 1..Len(log) :
        LET row == sheet[log[k].at]
        IN  /\ \E r \in 1..5 : row[2] = NatToStr(r)
            /\ row[3] # <<>>
            /\ row[3][1] # " " /\ row[3][Len(row[3])] # " "
            /\ row[1] = log[k].ts

(***************************************************************************)
(* C10: a run calls readAll once, before its append if it makes one; its   *)
(* word cloud and feed come from the DataFrame of that read, which is the  *)
(* sheet as it was then; so the run of a successful submission shows a     *)
(* feed without the row it appended, and the submission starts no further  *)
(* read.                                                                   *)
(***************************************************************************)
C10_Snapshot ==
    \A s \in Sessions :
        /\ readCalls[s] <= 1 /\ appendCalls[s] <= 1
        /\ appendCalls[s] = 1 => readCalls[s] = 1
        /\ pc[s] \in {"form", "done"} =>
              /\ readCalls[s] = 1
              /\ df_all[s] = ReadAll(SubSeq(sheet, 1, snapRows[s])).rows
              /\ cloud[s] = WordCloudOf(df_all[s])
        /\ pc[s] = "form" => appendCalls[s] = 0
        /\ pc[s] = "done" =>
              feed[s] \in {HeadRows(p, limit) : p \in SortValues(df_all[s])}
        /\ (pc[s] = "done" /\ msg[s] = "success") =>
              /\ snapRows[s] < LastAppendBy(s).at
              /\ \A i \in Shown(s) :
                    /\ i + 1 < LastAppendBy(s).at
                    /\ Stamp(s, i) # LastAppendBy(s).ts

C10_Witness ==
    \E s \in Sessions :
        /\ pc[s] = "done" /\ msg[s] = "success"
        /\ Len(feed[s]) > 0
        /\ Len(ReadAll(sheet).rows) > Len(df_all[s])

====
